---- MODULE Spec2Model ----
(***************************************************************************)
(* Model of distorsion_movement/audio_analyzer.py: the AudioAnalyzer       *)
(* engine (start_audio_capture / stop_audio_capture / _audio_callback /    *)
(* _process_audio / _detect_beat / get_audio_features) and the threads     *)
(* that run it: caller threads, the PortAudio callback thread, the worker  *)
(* threads created by start_audio_capture, and a consumer polling          *)
(* get_audio_features.                                                     *)
(*                                                                         *)
(* Floats are fixed-point integers: the float x is the integer x * Scale.  *)
(* An audio frame is represented by what np.abs(np.fft.rfft(frame)) gives: *)
(* its length n and the magnitudes of its non-zero bins (peaks).           *)
(***************************************************************************)
EXTENDS Integers, Sequences, FiniteSets, TLC

VARIABLES
    AUDIO_AVAILABLE,  \* module flag: pyaudio and scipy were importable
    pa,               \* self.pa: "none" | "initialized" | "terminated"
    stream,           \* self.stream: 0 (None) or the id of a stream object
    streams,          \* state of every stream object pa.open has returned
    is_running,       \* self.is_running
    audio_thread,     \* self.audio_thread: 0 (None) or the id of a worker
    audio_queue,      \* self.audio_queue
    bass_level, mid_level, high_level, overall_volume, beat_detected,
    volume_history, beat_cooldown,
    cpc,              \* position of each caller thread inside start/stop
    cret,             \* value each caller's call in progress is returning
    cnoop,            \* the stop in progress began on a stopped engine
    wpc,              \* position of each worker thread in _process_audio
    wframe,           \* audio_data local of each worker
    cb_pc, cb_frame,  \* the PortAudio callback thread inside _audio_callback
    cb_status,        \* status the last callback returned to PortAudio
    rpc, snap,        \* the consumer inside get_audio_features
    ncalls,           \* number of start/stop calls begun
    started,          \* a start call has begun
    lastcall,         \* the last call that returned: "none" | "start" | "stop"
    overlap,          \* a start and a stop have been in progress together
    nframes,          \* number of frames the device has delivered
    written,          \* per caller: a worker wrote owned state since its start began
    published,        \* the field values left by every completely processed frame
    nfed,             \* samples BeatStep has fed to _detect_beat
    nloud,            \* loud samples BeatStep has fed to _detect_beat
    sincebeat,        \* _detect_beat calls since the last detection, -1 = none yet
    lastgap,          \* calls from the previous detection to the last one, 0 = none
    raw_input,        \* the constant raw value of a smoothing run, -1 = no run
    smoothed_start,   \* the smoothed value before the first update of the run
    smoothed_lo,      \* lower bound of the smoothed value of the run
    smoothed_hi,      \* upper bound of the smoothed value of the run
    nupdates,         \* smoothing updates applied in the run
    further,          \* per worker: frames it took since is_running was cleared (2 = more)
    era,              \* calls begun before the last start that followed a stop, 0 = none
    qera,             \* for each queued frame, the calls begun before it was queued, 0 = not recorded
    band_rate,        \* sample_rate of the analyzer whose bands are examined, 0 = none
    band_size,        \* chunk_size of the analyzer whose bands are examined
    band_bin,         \* the FFT bin examined, -1 = none yet
    band_hits         \* the bands whose np.where selects that bin

engine == <<AUDIO_AVAILABLE, pa, stream, streams, is_running, audio_thread>>
owned == <<bass_level, mid_level, high_level, overall_volume, beat_detected,
           volume_history, beat_cooldown>>
callers == <<cpc, cret, cnoop, ncalls, started, lastcall, overlap>>
workers == <<wpc, wframe>>
callback == <<cb_pc, cb_frame, cb_status, nframes>>
reader == <<rpc, snap>>
beatghost == <<nfed, nloud, sincebeat, lastgap>>
smoothrun == <<raw_input, smoothed_start, smoothed_lo, smoothed_hi, nupdates>>
frameghost == <<further, era, qera>>
bandrun == <<band_rate, band_size, band_bin, band_hits>>
vars == <<engine, audio_queue, owned, callers, workers, callback, reader,
          written, published, beatghost, smoothrun, frameghost, bandrun>>

(***************************************************************************)
(* Bounds of the model.                                                    *)
(***************************************************************************)
MaxCalls == 3        \* start/stop calls begun in one behaviour
MaxFrames == 2       \* frames the device delivers in one behaviour
MaxBeatFrames == 22  \* samples fed in one behaviour of SpecBeat
MaxSpikes == 2       \* loud samples in one behaviour of SpecBeat
MaxUpdates == 32     \* smoothing updates in one behaviour of SpecSmooth

Callers == {1, 2}    \* caller threads; a call is begun by the lowest idle one
Ids == 1..MaxCalls   \* stream objects and worker threads, one per start at most

(***************************************************************************)
(* Program constants.                                                      *)
(***************************************************************************)
Scale == 1000                  \* fixed-point unit: the float 1.0
sample_rate == 44100
chunk_size == 1024
maxsize == 0                   \* queue.Queue(): maxsize 0, no capacity limit
bass_range == <<20, 250>>
\* a mid band that starts 50 Hz above the end of the bass band
mid_range_gapped == <<300, 4000>>
mid_range == <<250, 4000>>
high_range == <<4000, 20000>>
beat_threshold_x10 == 13       \* beat_threshold = 1.3
smoothing_factor_x10 == 8      \* smoothing_factor = 0.8
HistoryLen == 20
MinHistory == 10
RecentExcluded == 5
CooldownFrames == 10

RECURSIVE SeqSum(_)
SeqSum(s) == IF s = <<>> THEN 0 ELSE Head(s) + SeqSum(Tail(s))

Min(a, b) == IF a <= b THEN a ELSE b

(***************************************************************************)
(* Frames.  n is len(audio_data); peaks lists <<bin, magnitude>> of the    *)
(* bins of np.abs(np.fft.rfft(audio_data)) that are not 0.  A frame of     *)
(* length 0 makes np.fft.rfft raise ValueError.                            *)
(***************************************************************************)
Silence == [n |-> chunk_size, peaks |-> <<>>]
BassTone == [n |-> chunk_size, peaks |-> << <<3, 512 * Scale>> >>]
EmptyFrame == [n |-> 0, peaks |-> <<>>]
Frames == {BassTone, EmptyFrame}
NoFrame == [n |-> -1, peaks |-> <<>>]

\* (freqs[k] >= r[0]) & (freqs[k] <= r[1]) with freqs[k] = k * rate / n
InBand(rate, n, k, r) == r[1] * n <= k * rate /\ k * rate <= r[2] * n

\* np.where((freqs >= r[0]) & (freqs <= r[1])) with
\* freqs[k] = k * sample_rate / n, k = 0 .. n // 2
BandIndices(n, r) ==
    {k \in 0..(n \div 2) : InBand(sample_rate, n, k, r)}

RECURSIVE PeakSum(_, _)
PeakSum(peaks, bins) ==
    IF peaks = <<>> THEN 0
    ELSE (IF Head(peaks)[1] \in bins THEN Head(peaks)[2] ELSE 0)
         + PeakSum(Tail(peaks), bins)

\* np.mean(magnitude[indices]) if len(indices[0]) > 0 else 0
BandMean(f, r) ==
    LET bins == BandIndices(f.n, r)
    IN IF Cardinality(bins) > 0 THEN PeakSum(f.peaks, bins) \div Cardinality(bins) ELSE 0

\* np.mean(magnitude)
VolumeMean(f) == PeakSum(f.peaks, 0..(f.n \div 2)) \div ((f.n \div 2) + 1)

\* a peak-hold level: the larger of the level and the new value
SmoothHold(level, new) == IF new > level THEN new ELSE level

\* a smoother with smoothing factor 0.9
SmoothSlow(level, new) == (level * 9 + new) \div 10

\* level * smoothing_factor + new * (1 - smoothing_factor)
Smooth(level, new) ==
    (level * smoothing_factor_x10 + new * (10 - smoothing_factor_x10)) \div 10

\* a detector whose test ignores the cooldown
detect_beat_no_cooldown(hist, cooldown, current_volume) ==
    LET h1 == Append(hist, current_volume)
        h2 == IF Len(h1) > 20 THEN Tail(h1) ELSE h1
        cd == IF cooldown > 0 THEN cooldown - 1 ELSE cooldown
        old == SubSeq(h2, 1, Len(h2) - 5)
        hit == /\ Len(h2) >= 10
               /\ current_volume * 10 * Len(old) > SeqSum(old) * 13
    IN [volume_history |-> h2,
        beat_cooldown |-> IF hit THEN 10 ELSE cd,
        beat_detected |-> hit]

\* a detector that waits for a full history before it tests
detect_beat_full_history(hist, cooldown, current_volume) ==
    LET h1 == Append(hist, current_volume)
        h2 == IF Len(h1) > 20 THEN Tail(h1) ELSE h1
        cd == IF cooldown > 0 THEN cooldown - 1 ELSE cooldown
        old == SubSeq(h2, 1, Len(h2) - 5)
        hit == /\ Len(h2) >= 20
               /\ cd = 0
               /\ current_volume * 10 * Len(old) > SeqSum(old) * 13
    IN [volume_history |-> h2,
        beat_cooldown |-> IF hit THEN 10 ELSE cd,
        beat_detected |-> hit]

\* a detector that evicts the newest sample: pop() instead of pop(0)
detect_beat_pop_newest(hist, cooldown, current_volume) ==
    LET h1 == Append(hist, current_volume)
        h2 == IF Len(h1) > 20 THEN SubSeq(h1, 1, 20) ELSE h1
        cd == IF cooldown > 0 THEN cooldown - 1 ELSE cooldown
        old == SubSeq(h2, 1, Len(h2) - 5)
        hit == /\ Len(h2) >= 10
               /\ cd = 0
               /\ current_volume * 10 * Len(old) > SeqSum(old) * 13
    IN [volume_history |-> h2,
        beat_cooldown |-> IF hit THEN 10 ELSE cd,
        beat_detected |-> hit]

\* a detector that never decrements the cooldown
detect_beat_no_decrement(hist, cooldown, current_volume) ==
    LET h1 == Append(hist, current_volume)
        h2 == IF Len(h1) > 20 THEN Tail(h1) ELSE h1
        old == SubSeq(h2, 1, Len(h2) - 5)
        hit == /\ Len(h2) >= 10
               /\ cooldown = 0
               /\ current_volume * 10 * Len(old) > SeqSum(old) * 13
    IN [volume_history |-> h2,
        beat_cooldown |-> IF hit THEN 10 ELSE cooldown,
        beat_detected |-> hit]

\* a detector whose comparison is >= instead of >
detect_beat_nonstrict(hist, cooldown, current_volume) ==
    LET h1 == Append(hist, current_volume)
        h2 == IF Len(h1) > 20 THEN Tail(h1) ELSE h1
        cd == IF cooldown > 0 THEN cooldown - 1 ELSE cooldown
        old == SubSeq(h2, 1, Len(h2) - 5)
        hit == /\ Len(h2) >= 10
               /\ cd = 0
               /\ current_volume * 10 * Len(old) >= SeqSum(old) * 13
    IN [volume_history |-> h2,
        beat_cooldown |-> IF hit THEN 10 ELSE cd,
        beat_detected |-> hit]

(***************************************************************************)
(* _detect_beat(current_volume), on the state (volume_history,             *)
(* beat_cooldown): the new volume_history, beat_cooldown, beat_detected.   *)
(***************************************************************************)
detect_beat(hist, cooldown, current_volume) ==
    LET h1 == Append(hist, current_volume)
        h2 == IF Len(h1) > HistoryLen THEN Tail(h1) ELSE h1
        cd == IF cooldown > 0 THEN cooldown - 1 ELSE cooldown
        old == SubSeq(h2, 1, Len(h2) - RecentExcluded)
        \* current_volume > np.mean(old) * beat_threshold
        hit == /\ Len(h2) >= MinHistory
               /\ cd = 0
               /\ current_volume * 10 * Len(old) > SeqSum(old) * beat_threshold_x10
    IN [volume_history |-> h2,
        beat_cooldown |-> IF hit THEN CooldownFrames ELSE cd,
        beat_detected |-> hit]

(***************************************************************************)
(* queue.Queue.put(item, block=False): raises Full when 0 < maxsize <=     *)
(* qsize, and never waits.                                                 *)
(***************************************************************************)
QueueFull(q) == maxsize > 0 /\ Len(q) >= maxsize

\* a blocking put on a queue of capacity 1: it waits while a frame is queued
PutWaitsBlocking(q) == Len(q) >= 1

\* put(audio_data, block=False) has to wait for room in the queue
PutWaits(q) == FALSE

(***************************************************************************)
(* get_audio_features: the five entries of the returned dict, evaluated in *)
(* the order they are written.                                             *)
(***************************************************************************)
NoSnap == [bass_level |-> -1, mid_level |-> -1, high_level |-> -1,
           overall_volume |-> -1, beat_detected |-> FALSE]

\* a dict of the raw smoothed levels, clamped above but not scaled
FeaturesUnscaled(b, m, h, v, beat) ==
    [bass_level |-> Min(b, Scale),
     mid_level |-> Min(m, Scale),
     high_level |-> Min(h, Scale),
     overall_volume |-> Min(v, Scale),
     beat_detected |-> beat]

Features(b, m, h, v, beat) ==
    [bass_level |-> Min(b * 100, Scale),
     mid_level |-> Min(m * 50, Scale),
     high_level |-> Min(h * 20, Scale),
     overall_volume |-> Min(v * 30, Scale),
     beat_detected |-> beat]

Current == <<bass_level, mid_level, high_level, overall_volume, beat_detected>>

(***************************************************************************)
(* Thread positions.                                                       *)
(***************************************************************************)
StartPcs == {"s_check", "s_open", "s_run", "s_thread", "s_ret"}
StopPcs == {"t_flag", "t_stream", "t_close", "t_pa", "t_ret"}
Alive(w) == wpc[w] \notin {"none", "exited"}
LiveWorkers == {w \in Ids : Alive(w)}
Fresh(f) == CHOOSE i \in Ids : f[i] = "none" /\ \A j \in Ids : j < i => f[j] # "none"

(***************************************************************************)
(* __init__                                                                *)
(***************************************************************************)
Init ==
    /\ AUDIO_AVAILABLE \in BOOLEAN
    /\ pa = IF AUDIO_AVAILABLE THEN "initialized" ELSE "none"
    /\ stream = 0
    /\ streams = [i \in Ids |-> "none"]
    /\ is_running = FALSE
    /\ audio_thread = 0
    /\ audio_queue = <<>>
    /\ bass_level = 0
    /\ mid_level = 0
    /\ high_level = 0
    /\ overall_volume = 0
    /\ beat_detected = FALSE
    /\ volume_history = <<>>
    /\ beat_cooldown = 0
    /\ cpc = [c \in Callers |-> "idle"]
    /\ cret = [c \in Callers |-> "none"]
    /\ cnoop = [c \in Callers |-> FALSE]
    /\ wpc = [w \in Ids |-> "none"]
    /\ wframe = [w \in Ids |-> NoFrame]
    /\ cb_pc = "idle"
    /\ cb_frame = NoFrame
    /\ cb_status = "none"
    /\ rpc = "idle"
    /\ snap = NoSnap
    /\ ncalls = 0
    /\ started = FALSE
    /\ lastcall = "none"
    /\ overlap = FALSE
    /\ nframes = 0
    /\ written = [c \in Callers |-> TRUE]
    /\ published = {<<0, 0, 0, 0, FALSE>>}
    /\ nfed = 0
    /\ nloud = 0
    /\ sincebeat = -1
    /\ lastgap = 0
    /\ raw_input = -1
    /\ smoothed_start = 0
    /\ smoothed_lo = 0
    /\ smoothed_hi = 0
    /\ nupdates = 0
    /\ further = [w \in Ids |-> 0]
    /\ era = 0
    /\ qera = <<>>
    /\ band_rate = 0
    /\ band_size = 0
    /\ band_bin = -1
    /\ band_hits = {}

(***************************************************************************)
(* start_audio_capture, statement by statement, run by caller thread c.    *)
(***************************************************************************)
BeginStart(c) ==
    /\ cpc[c] = "idle"
    /\ \A d \in Callers : d < c => cpc[d] # "idle"
    /\ ncalls < MaxCalls
    /\ cpc' = [cpc EXCEPT ![c] = "s_check"]
    /\ ncalls' = ncalls + 1
    /\ started' = TRUE
    /\ overlap' = (overlap \/ \E d \in Callers : cpc[d] \in StopPcs)
    /\ written' = [written EXCEPT ![c] = FALSE]
    /\ era' = IF lastcall = "stop" THEN ncalls ELSE era
    /\ UNCHANGED <<engine, audio_queue, owned, cret, cnoop, lastcall, workers, callback,
                   reader, published, beatghost, smoothrun, further, qera, bandrun>>

\* a start that goes on to run the worker when the libraries are missing
StartCheckRuns(c) ==
    /\ cpc[c] = "s_check"
    /\ cpc' = [cpc EXCEPT ![c] = IF AUDIO_AVAILABLE THEN "s_open" ELSE "s_run"]
    /\ UNCHANGED <<engine, audio_queue, owned, cret, cnoop, ncalls, started, lastcall,
                   overlap, workers, callback, reader, written, published, beatghost, smoothrun, frameghost, bandrun>>

\* if not AUDIO_AVAILABLE: return False
StartCheck(c) ==
    /\ cpc[c] = "s_check"
    /\ IF AUDIO_AVAILABLE
       THEN /\ cpc' = [cpc EXCEPT ![c] = "s_open"]
            /\ cret' = cret
       ELSE /\ cpc' = [cpc EXCEPT ![c] = "s_ret"]
            /\ cret' = [cret EXCEPT ![c] = "False"]
    /\ UNCHANGED <<engine, audio_queue, owned, cnoop, ncalls, started, lastcall,
                   overlap, workers, callback, reader, written, published, beatghost, smoothrun, frameghost, bandrun>>

\* self.stream = self.pa.open(..., stream_callback=self._audio_callback)
StartOpen(c) ==
    /\ cpc[c] = "s_open"
    /\ pa = "initialized"
    /\ streams' = [streams EXCEPT ![Fresh(streams)] = "active"]
    /\ stream' = Fresh(streams)
    /\ cpc' = [cpc EXCEPT ![c] = "s_run"]
    /\ UNCHANGED <<AUDIO_AVAILABLE, pa, is_running, audio_thread, audio_queue,
                   owned, cret, cnoop, ncalls, started, lastcall, overlap, workers,
                   callback, reader, written, published, beatghost, smoothrun, frameghost, bandrun>>

\* a start that sets is_running before pa.open and does not clear it when
\* pa.open raises
StartOpenFailsRunning(c) ==
    /\ cpc[c] = "s_open"
    /\ is_running' = TRUE
    /\ cpc' = [cpc EXCEPT ![c] = "s_ret"]
    /\ cret' = [cret EXCEPT ![c] = "False"]
    /\ UNCHANGED <<AUDIO_AVAILABLE, pa, stream, streams, audio_thread, audio_queue,
                   owned, cnoop, ncalls, started, lastcall, overlap, workers,
                   callback, reader, written, published, beatghost, smoothrun, frameghost, bandrun>>

\* pa.open raises (no input device, or PortAudio already terminated):
\* except Exception: return False
StartOpenFails(c) ==
    /\ cpc[c] = "s_open"
    /\ cpc' = [cpc EXCEPT ![c] = "s_ret"]
    /\ cret' = [cret EXCEPT ![c] = "False"]
    /\ UNCHANGED <<engine, audio_queue, owned, cnoop, ncalls, started, lastcall,
                   overlap, workers, callback, reader, written, published, beatghost, smoothrun, frameghost, bandrun>>

\* self.is_running = True
StartRun(c) ==
    /\ cpc[c] = "s_run"
    /\ is_running' = TRUE
    /\ cpc' = [cpc EXCEPT ![c] = "s_thread"]
    /\ further' = [w \in Ids |-> 0]
    /\ UNCHANGED <<AUDIO_AVAILABLE, pa, stream, streams, audio_thread, audio_queue,
                   owned, cret, cnoop, ncalls, started, lastcall, overlap, workers,
                   callback, reader, written, published, beatghost, smoothrun,
                   era, qera, bandrun>>

\* self.audio_thread = threading.Thread(...); self.audio_thread.start(); return True
StartThread(c) ==
    /\ cpc[c] = "s_thread"
    /\ audio_thread' = Fresh(wpc)
    /\ wpc' = [wpc EXCEPT ![Fresh(wpc)] = "loop"]
    /\ cpc' = [cpc EXCEPT ![c] = "s_ret"]
    /\ cret' = [cret EXCEPT ![c] = "True"]
    /\ UNCHANGED <<AUDIO_AVAILABLE, pa, stream, streams, is_running, audio_queue,
                   owned, cnoop, ncalls, started, lastcall, overlap, wframe,
                   callback, reader, written, published, beatghost, smoothrun, frameghost, bandrun>>

StartReturn(c) ==
    /\ cpc[c] = "s_ret"
    /\ cpc' = [cpc EXCEPT ![c] = "idle"]
    /\ cret' = [cret EXCEPT ![c] = "none"]
    /\ lastcall' = "start"
    /\ written' = [written EXCEPT ![c] = TRUE]
    /\ UNCHANGED <<engine, audio_queue, owned, cnoop, ncalls, started,
                   overlap, workers, callback, reader, published, beatghost, smoothrun, frameghost, bandrun>>

(***************************************************************************)
(* stop_audio_capture, statement by statement, run by caller thread c.     *)
(***************************************************************************)
\* the engine is stopped: no start has begun yet, or the last call to return
\* was a stop and no call is in progress
Stopped == ~started \/ (lastcall = "stop" /\ \A d \in Callers : cpc[d] = "idle")

\* the other order: release the device first, clear is_running last
StopNextReleaseFirst(pc, has_stream) ==
    CASE pc = "idle" -> "t_stream"
      [] pc = "t_stream" -> IF has_stream THEN "t_close" ELSE "t_pa"
      [] pc = "t_close" -> "t_pa"
      [] pc = "t_pa" -> "t_flag"
      [] pc = "t_flag" -> "t_ret"

\* the order of the statements of stop_audio_capture: the position after pc
StopNext(pc, has_stream) ==
    CASE pc = "idle" -> "t_flag"
      [] pc = "t_flag" -> "t_stream"
      [] pc = "t_stream" -> IF has_stream THEN "t_close" ELSE "t_pa"
      [] pc = "t_close" -> "t_pa"
      [] pc = "t_pa" -> "t_ret"

BeginStop(c) ==
    /\ cpc[c] = "idle"
    /\ \A d \in Callers : d < c => cpc[d] # "idle"
    /\ ncalls < MaxCalls
    /\ cpc' = [cpc EXCEPT ![c] = StopNext("idle", FALSE)]
    /\ cnoop' = [cnoop EXCEPT ![c] = Stopped]
    /\ ncalls' = ncalls + 1
    /\ overlap' = (overlap \/ \E d \in Callers : cpc[d] \in StartPcs)
    /\ UNCHANGED <<engine, audio_queue, owned, cret, started, lastcall, workers,
                   callback, reader, written, published, beatghost, smoothrun, frameghost, bandrun>>

\* self.is_running = False
StopFlag(c) ==
    /\ cpc[c] = "t_flag"
    /\ is_running' = FALSE
    /\ cpc' = [cpc EXCEPT ![c] = StopNext("t_flag", FALSE)]
    /\ further' = IF is_running THEN [w \in Ids |-> 0] ELSE further
    /\ UNCHANGED <<AUDIO_AVAILABLE, pa, stream, streams, audio_thread, audio_queue,
                   owned, cret, cnoop, ncalls, started, lastcall, overlap, workers,
                   callback, reader, written, published, beatghost, smoothrun,
                   era, qera, bandrun>>

\* if self.stream: self.stream.stop_stream()
StopStream(c) ==
    /\ cpc[c] = "t_stream"
    /\ IF stream # 0
       THEN /\ streams' = [streams EXCEPT ![stream] =
                              IF @ = "active" THEN "stopped" ELSE @]
            /\ cpc' = [cpc EXCEPT ![c] = StopNext("t_stream", TRUE)]
       ELSE /\ streams' = streams
            /\ cpc' = [cpc EXCEPT ![c] = StopNext("t_stream", FALSE)]
    /\ UNCHANGED <<AUDIO_AVAILABLE, pa, stream, is_running, audio_thread,
                   audio_queue, owned, cret, cnoop, ncalls, started, lastcall,
                   overlap, workers, callback, reader, written, published, beatghost, smoothrun, frameghost, bandrun>>

\* self.stream.close()
StopClose(c) ==
    /\ cpc[c] = "t_close"
    /\ streams' = [streams EXCEPT ![stream] = "closed"]
    /\ cpc' = [cpc EXCEPT ![c] = StopNext("t_close", TRUE)]
    /\ UNCHANGED <<AUDIO_AVAILABLE, pa, stream, is_running, audio_thread,
                   audio_queue, owned, cret, cnoop, ncalls, started, lastcall,
                   overlap, workers, callback, reader, written, published, beatghost, smoothrun, frameghost, bandrun>>

\* a terminate that leaves the streams of the PyAudio object as they are
StopTerminateOnly(c) ==
    /\ cpc[c] = "t_pa"
    /\ pa' = IF pa # "none" THEN "terminated" ELSE pa
    /\ cpc' = [cpc EXCEPT ![c] = StopNext("t_pa", stream # 0)]
    /\ cret' = [cret EXCEPT ![c] = "None"]
    /\ UNCHANGED <<AUDIO_AVAILABLE, stream, streams, is_running, audio_thread,
                   audio_queue, owned, cnoop, ncalls, started, lastcall, overlap,
                   workers, callback, reader, written, published, beatghost,
                   smoothrun, frameghost, bandrun>>

\* if self.pa: self.pa.terminate()   (PyAudio.terminate closes every stream
\* the PyAudio object has opened, then terminates PortAudio)
StopTerminate(c) ==
    /\ cpc[c] = "t_pa"
    /\ IF pa # "none"
       THEN /\ pa' = "terminated"
            /\ streams' = [i \in Ids |-> IF streams[i] = "none" THEN "none" ELSE "closed"]
       ELSE UNCHANGED <<pa, streams>>
    /\ cpc' = [cpc EXCEPT ![c] = StopNext("t_pa", stream # 0)]
    /\ cret' = [cret EXCEPT ![c] = "None"]
    /\ UNCHANGED <<AUDIO_AVAILABLE, stream, is_running, audio_thread, audio_queue,
                   owned, cnoop, ncalls, started, lastcall, overlap, workers,
                   callback, reader, written, published, beatghost, smoothrun, frameghost, bandrun>>

StopReturn(c) ==
    /\ cpc[c] = "t_ret"
    /\ cpc' = [cpc EXCEPT ![c] = "idle"]
    /\ cnoop' = [cnoop EXCEPT ![c] = FALSE]
    /\ cret' = [cret EXCEPT ![c] = "none"]
    /\ lastcall' = "stop"
    /\ UNCHANGED <<engine, audio_queue, owned, ncalls, started,
                   overlap, workers, callback, reader, written, published, beatghost, smoothrun, frameghost, bandrun>>

(***************************************************************************)
(* _audio_callback, run by PortAudio's thread for a stream that is active. *)
(***************************************************************************)
DeviceInvoke(f) ==
    /\ cb_pc = "idle"
    /\ nframes < MaxFrames
    /\ \E s \in Ids : streams[s] = "active"
    /\ cb_pc' = "put"
    /\ cb_frame' = f
    /\ nframes' = nframes + 1
    /\ UNCHANGED <<engine, audio_queue, owned, callers, workers, cb_status, reader,
                   written, published, beatghost, smoothrun, frameghost, bandrun>>

\* try: self.audio_queue.put(audio_data, block=False)
\* except queue.Full: pass
\* return (None, pyaudio.paContinue)
PutFrame ==
    /\ cb_pc = "put"
    /\ ~PutWaits(audio_queue)
    /\ audio_queue' = IF QueueFull(audio_queue) THEN audio_queue
                      ELSE Append(audio_queue, cb_frame)
    /\ cb_status' = "paContinue"
    /\ cb_pc' = "idle"
    /\ cb_frame' = NoFrame
    /\ UNCHANGED <<engine, owned, callers, workers, nframes, reader, written,
                   published, beatghost, smoothrun, further, era, bandrun>>

CallbackPut ==
    /\ PutFrame
    /\ qera' = IF QueueFull(audio_queue) THEN qera ELSE Append(qera, 0)

\* the same statements, the frame stamped with the number of calls begun
CallbackPutStamped ==
    /\ PutFrame
    /\ qera' = IF QueueFull(audio_queue) THEN qera ELSE Append(qera, ncalls)

(***************************************************************************)
(* _process_audio, run by worker thread w.                                 *)
(***************************************************************************)
\* a loop that does not test is_running: while True
WorkerLoopAlways(w) ==
    /\ wpc[w] = "loop"
    /\ wpc' = [wpc EXCEPT ![w] = "get"]
    /\ UNCHANGED <<engine, audio_queue, owned, callers, wframe, callback, reader,
                   written, published, beatghost, smoothrun, frameghost, bandrun>>

\* while self.is_running:
WorkerLoop(w) ==
    /\ wpc[w] = "loop"
    /\ wpc' = [wpc EXCEPT ![w] = IF is_running THEN "get" ELSE "exited"]
    /\ UNCHANGED <<engine, audio_queue, owned, callers, wframe, callback, reader,
                   written, published, beatghost, smoothrun, frameghost, bandrun>>

\* a worker without the except Exception branch: the ValueError of rfft ends
\* the thread
WorkerGetDies(w) ==
    /\ wpc[w] = "get"
    /\ audio_queue # <<>>
    /\ audio_queue' = Tail(audio_queue)
    /\ IF Head(audio_queue).n < 1
       THEN /\ wpc' = [wpc EXCEPT ![w] = "exited"]
            /\ wframe' = wframe
       ELSE /\ wpc' = [wpc EXCEPT ![w] = "bass"]
            /\ wframe' = [wframe EXCEPT ![w] = Head(audio_queue)]
    /\ qera' = Tail(qera)
    /\ UNCHANGED <<engine, owned, callers, callback, reader, written, published,
                   beatghost, smoothrun, further, era, bandrun>>

\* audio_data = self.audio_queue.get(timeout=0.1); fft = np.fft.rfft(audio_data)
\* (rfft raises ValueError on an empty frame: except Exception: continue)
TakeFrame(w) ==
    /\ wpc[w] = "get"
    /\ audio_queue # <<>>
    /\ audio_queue' = Tail(audio_queue)
    /\ IF Head(audio_queue).n < 1
       THEN /\ wpc' = [wpc EXCEPT ![w] = "loop"]
            /\ wframe' = wframe
       ELSE /\ wpc' = [wpc EXCEPT ![w] = "bass"]
            /\ wframe' = [wframe EXCEPT ![w] = Head(audio_queue)]
    /\ qera' = Tail(qera)
    /\ UNCHANGED <<engine, owned, callers, callback, reader, written, published,
                   beatghost, smoothrun, era, bandrun>>

WorkerGet(w) == TakeFrame(w) /\ further' = further

\* the same statement, counted when it runs with is_running cleared
WorkerGetCounted(w) ==
    /\ TakeFrame(w)
    /\ further' = [further EXCEPT ![w] = IF is_running THEN @ ELSE Min(@ + 1, 2)]

\* a get without timeout: it never raises queue.Empty
GetBlocksForever(q) == FALSE

\* get(timeout=0.1) raises queue.Empty: the queue stayed empty for 0.1 s
GetTimesOut(q) == q = <<>>

\* the get times out: except queue.Empty: continue
WorkerTimeout(w) ==
    /\ wpc[w] = "get"
    /\ GetTimesOut(audio_queue)
    /\ wpc' = [wpc EXCEPT ![w] = "loop"]
    /\ UNCHANGED <<engine, audio_queue, owned, callers, wframe, callback, reader,
                   written, published, beatghost, smoothrun, frameghost, bandrun>>

WorkerBass(w) ==
    /\ wpc[w] = "bass"
    /\ bass_level' = Smooth(bass_level, BandMean(wframe[w], bass_range))
    /\ wpc' = [wpc EXCEPT ![w] = "mid"]
    /\ written' = [c \in Callers |-> TRUE]
    /\ UNCHANGED <<engine, audio_queue, mid_level, high_level, overall_volume,
                   beat_detected, volume_history, beat_cooldown, callers, wframe,
                   callback, reader, published, beatghost, smoothrun, frameghost, bandrun>>

WorkerMid(w) ==
    /\ wpc[w] = "mid"
    /\ mid_level' = Smooth(mid_level, BandMean(wframe[w], mid_range))
    /\ wpc' = [wpc EXCEPT ![w] = "high"]
    /\ written' = [c \in Callers |-> TRUE]
    /\ UNCHANGED <<engine, audio_queue, bass_level, high_level, overall_volume,
                   beat_detected, volume_history, beat_cooldown, callers, wframe,
                   callback, reader, published, beatghost, smoothrun, frameghost, bandrun>>

WorkerHigh(w) ==
    /\ wpc[w] = "high"
    /\ high_level' = Smooth(high_level, BandMean(wframe[w], high_range))
    /\ wpc' = [wpc EXCEPT ![w] = "volume"]
    /\ written' = [c \in Callers |-> TRUE]
    /\ UNCHANGED <<engine, audio_queue, bass_level, mid_level, overall_volume,
                   beat_detected, volume_history, beat_cooldown, callers, wframe,
                   callback, reader, published, beatghost, smoothrun, frameghost, bandrun>>

WorkerVolume(w) ==
    /\ wpc[w] = "volume"
    /\ overall_volume' = Smooth(overall_volume, VolumeMean(wframe[w]))
    /\ wpc' = [wpc EXCEPT ![w] = "beat"]
    /\ written' = [c \in Callers |-> TRUE]
    /\ UNCHANGED <<engine, audio_queue, bass_level, mid_level, high_level,
                   beat_detected, volume_history, beat_cooldown, callers, wframe,
                   callback, reader, published, beatghost, smoothrun, frameghost, bandrun>>

\* the state left by one _detect_beat(v) call, and the detection bookkeeping
DetectStep(v) ==
    LET r == detect_beat(volume_history, beat_cooldown, v)
    IN /\ volume_history' = r.volume_history
       /\ beat_cooldown' = r.beat_cooldown
       /\ beat_detected' = r.beat_detected
       /\ sincebeat' = IF r.beat_detected THEN 0
                       ELSE IF sincebeat = -1 THEN -1
                       ELSE Min(sincebeat + 1, CooldownFrames + 1)
       /\ lastgap' = IF r.beat_detected /\ sincebeat # -1 THEN sincebeat + 1
                     ELSE lastgap

\* a worker that steps the detector with the smoothed overall_volume
WorkerBeatSmoothed(w) ==
    /\ wpc[w] = "beat"
    /\ DetectStep(overall_volume)
    /\ wpc' = [wpc EXCEPT ![w] = "loop"]
    /\ wframe' = [wframe EXCEPT ![w] = NoFrame]
    /\ written' = [c \in Callers |-> TRUE]
    /\ published' = published \cup
           {<<bass_level, mid_level, high_level, overall_volume, beat_detected'>>}
    /\ UNCHANGED <<engine, audio_queue, bass_level, mid_level, high_level,
                   overall_volume, callers, callback, reader, nfed, nloud,
                   smoothrun, frameghost, bandrun>>

\* self._detect_beat(volume_new), and back to the loop test
WorkerBeat(w) ==
    /\ wpc[w] = "beat"
    /\ DetectStep(VolumeMean(wframe[w]))
    /\ wpc' = [wpc EXCEPT ![w] = "loop"]
    /\ wframe' = [wframe EXCEPT ![w] = NoFrame]
    /\ written' = [c \in Callers |-> TRUE]
    /\ published' = published \cup
           {<<bass_level, mid_level, high_level, overall_volume, beat_detected'>>}
    /\ UNCHANGED <<engine, audio_queue, bass_level, mid_level, high_level,
                   overall_volume, callers, callback, reader, nfed, nloud,
                   smoothrun, frameghost, bandrun>>

(***************************************************************************)
(* get_audio_features, run by the consumer thread: five attribute reads.   *)
(***************************************************************************)
ReaderBegin ==
    /\ rpc = "idle"
    /\ rpc' = "bass"
    /\ snap' = NoSnap
    /\ UNCHANGED <<engine, audio_queue, owned, callers, workers, callback, written,
                   published, beatghost, smoothrun, frameghost, bandrun>>

ReadBass ==
    /\ rpc = "bass"
    /\ snap' = [snap EXCEPT !.bass_level = Features(bass_level, 0, 0, 0, FALSE).bass_level]
    /\ rpc' = "mid"
    /\ UNCHANGED <<engine, audio_queue, owned, callers, workers, callback, written,
                   published, beatghost, smoothrun, frameghost, bandrun>>

ReadMid ==
    /\ rpc = "mid"
    /\ snap' = [snap EXCEPT !.mid_level = Features(0, mid_level, 0, 0, FALSE).mid_level]
    /\ rpc' = "high"
    /\ UNCHANGED <<engine, audio_queue, owned, callers, workers, callback, written,
                   published, beatghost, smoothrun, frameghost, bandrun>>

ReadHigh ==
    /\ rpc = "high"
    /\ snap' = [snap EXCEPT !.high_level = Features(0, 0, high_level, 0, FALSE).high_level]
    /\ rpc' = "volume"
    /\ UNCHANGED <<engine, audio_queue, owned, callers, workers, callback, written,
                   published, beatghost, smoothrun, frameghost, bandrun>>

\* a dict built without its overall_volume entry
ReadVolumeMissing ==
    /\ rpc = "volume"
    /\ rpc' = "beat"
    /\ UNCHANGED <<engine, audio_queue, owned, callers, workers, callback, snap,
                   written, published, beatghost, smoothrun, frameghost, bandrun>>

ReadVolume ==
    /\ rpc = "volume"
    /\ snap' = [snap EXCEPT !.overall_volume =
                   Features(0, 0, 0, overall_volume, FALSE).overall_volume]
    /\ rpc' = "beat"
    /\ UNCHANGED <<engine, audio_queue, owned, callers, workers, callback, written,
                   published, beatghost, smoothrun, frameghost, bandrun>>

ReadBeat ==
    /\ rpc = "beat"
    /\ snap' = [snap EXCEPT !.beat_detected = beat_detected]
    /\ rpc' = "done"
    /\ UNCHANGED <<engine, audio_queue, owned, callers, workers, callback, written,
                   published, beatghost, smoothrun, frameghost, bandrun>>

ReaderReturn ==
    /\ rpc = "done"
    /\ rpc' = "idle"
    /\ snap' = NoSnap
    /\ UNCHANGED <<engine, audio_queue, owned, callers, workers, callback, written,
                   published, beatghost, smoothrun, frameghost, bandrun>>

(***************************************************************************)
(* The threads.                                                            *)
(***************************************************************************)
CallerStep(c) ==
    \/ BeginStart(c)
    \/ StartCheck(c)
    \/ StartOpen(c)
    \/ StartOpenFails(c)
    \/ StartRun(c)
    \/ StartThread(c)
    \/ StartReturn(c)
    \/ BeginStop(c)
    \/ StopFlag(c)
    \/ StopStream(c)
    \/ StopClose(c)
    \/ StopTerminate(c)
    \/ StopReturn(c)

CallbackStep ==
    \/ \E f \in Frames : DeviceInvoke(f)
    \/ CallbackPut

WorkerStep(w) ==
    \/ WorkerLoop(w)
    \/ WorkerGet(w)
    \/ WorkerTimeout(w)
    \/ WorkerBass(w)
    \/ WorkerMid(w)
    \/ WorkerHigh(w)
    \/ WorkerVolume(w)
    \/ WorkerBeat(w)

ReaderStep ==
    \/ ReaderBegin
    \/ ReadBass
    \/ ReadMid
    \/ ReadHigh
    \/ ReadVolume
    \/ ReadBeat
    \/ ReaderReturn

(***************************************************************************)
(* The whole program: caller threads, the callback thread, the workers and *)
(* the consumer.                                                           *)
(***************************************************************************)
Next ==
    \/ \E c \in Callers : CallerStep(c)
    \/ CallbackStep
    \/ \E w \in Ids : WorkerStep(w)
    \/ ReaderStep

Spec == Init /\ [][Next]_vars

(***************************************************************************)
(* One caller thread starting and stopping the engine (the render loop's   *)
(* audio toggle), with the callback and the workers.                       *)
(***************************************************************************)
NextOne ==
    \/ CallerStep(1)
    \/ CallbackStep
    \/ \E w \in Ids : WorkerStep(w)

SpecOne == Init /\ [][NextOne]_vars

(***************************************************************************)
(* Two caller threads racing start and stop, with the callback and the     *)
(* workers.                                                                *)
(***************************************************************************)
NextRace ==
    \/ \E c \in Callers : CallerStep(c)
    \/ CallbackStep
    \/ \E w \in Ids : WorkerStep(w)

SpecRace == Init /\ [][NextRace]_vars

(***************************************************************************)
(* One capture session: one caller thread that calls start_audio_capture   *)
(* at most once and stop_audio_capture any number of times, before or      *)
(* after, with the callback and the workers.  Thread scheduling: a worker  *)
(* thread that can take a step eventually takes one (the interpreter       *)
(* schedules every runnable thread, and the get returns after 0.1 s at the *)
(* latest).  Nothing is assumed of the caller or of the device.            *)
(***************************************************************************)
StartOnce(c) == ~started /\ BeginStart(c)

SessionStep(c) ==
    \/ StartOnce(c)
    \/ StartCheck(c)
    \/ StartOpen(c)
    \/ StartOpenFails(c)
    \/ StartRun(c)
    \/ StartThread(c)
    \/ StartReturn(c)
    \/ BeginStop(c)
    \/ StopFlag(c)
    \/ StopStream(c)
    \/ StopClose(c)
    \/ StopTerminate(c)
    \/ StopReturn(c)

NextLive ==
    \/ SessionStep(1)
    \/ CallbackStep
    \/ \E w \in Ids : WorkerStep(w)

SpecLive == Init /\ [][NextLive]_vars /\ \A w \in Ids : WF_vars(WorkerStep(w))

(***************************************************************************)
(* One caller thread starting and stopping the engine, the callback and    *)
(* the workers, every frame a worker takes being counted against           *)
(* is_running.                                                             *)
(***************************************************************************)
CountedWorkerStep(w) ==
    \/ WorkerLoop(w)
    \/ WorkerGetCounted(w)
    \/ WorkerTimeout(w)
    \/ WorkerBass(w)
    \/ WorkerMid(w)
    \/ WorkerHigh(w)
    \/ WorkerVolume(w)
    \/ WorkerBeat(w)

NextHalt ==
    \/ CallerStep(1)
    \/ CallbackStep
    \/ \E w \in Ids : CountedWorkerStep(w)

SpecHalt == Init /\ [][NextHalt]_vars

(***************************************************************************)
(* One caller thread starting and stopping the engine, the callback and    *)
(* the workers, every queued frame being stamped with the number of calls  *)
(* begun before it was queued.                                             *)
(***************************************************************************)
NextStamped ==
    \/ CallerStep(1)
    \/ \E f \in Frames : DeviceInvoke(f)
    \/ CallbackPutStamped
    \/ \E w \in Ids : WorkerStep(w)

SpecStamped == Init /\ [][NextStamped]_vars

(***************************************************************************)
(* The consumer polling get_audio_features while one caller thread starts  *)
(* and stops the engine and the callback and the workers run.              *)
(***************************************************************************)
NextRead ==
    \/ NextOne
    \/ ReaderStep

SpecRead == Init /\ [][NextRead]_vars

(***************************************************************************)
(* The consumer polling get_audio_features during one capture session: the *)
(* caller thread calls start_audio_capture and stop_audio_capture in any   *)
(* order, but calls start_audio_capture no more once a start has opened a  *)
(* stream; the callback and the workers run.                               *)
(***************************************************************************)
StartUnopened(c) == (\A i \in Ids : streams[i] = "none") /\ BeginStart(c)

PollCallerStep(c) ==
    \/ StartUnopened(c)
    \/ StartCheck(c)
    \/ StartOpen(c)
    \/ StartOpenFails(c)
    \/ StartRun(c)
    \/ StartThread(c)
    \/ StartReturn(c)
    \/ BeginStop(c)
    \/ StopFlag(c)
    \/ StopStream(c)
    \/ StopClose(c)
    \/ StopTerminate(c)
    \/ StopReturn(c)

NextPoll ==
    \/ PollCallerStep(1)
    \/ CallbackStep
    \/ \E w \in Ids : WorkerStep(w)
    \/ ReaderStep

SpecPoll == Init /\ [][NextPoll]_vars

(***************************************************************************)
(* The polled capture session with frames of two loudnesses: a chord faint *)
(* enough for every scaled level to stay below 1.0 (magnitude 0.1 at bin   *)
(* 3, 1.0 at bin 50, 40.0 at bin 200) and the loud bass tone.              *)
(***************************************************************************)
Chord == [n |-> chunk_size,
          peaks |-> << <<3, Scale \div 10>>, <<50, 1 * Scale>>, <<200, 40 * Scale>> >>]
ToneFrames == {Chord, BassTone}

NextLevels ==
    \/ PollCallerStep(1)
    \/ \E f \in ToneFrames : DeviceInvoke(f)
    \/ CallbackPut
    \/ \E w \in Ids : WorkerStep(w)
    \/ ReaderStep

SpecLevels == Init /\ [][NextLevels]_vars

(***************************************************************************)
(* The analysis alone: the body of the worker loop (lines 125-149) applied *)
(* to one frame after another on a freshly constructed analyzer, by one    *)
(* thread: frames of zeros, and the loud bass tone at most MaxSpikes       *)
(* times.                                                                  *)
(***************************************************************************)
ProcessFrame(f) ==
    /\ nfed < MaxBeatFrames
    /\ f = BassTone => nloud < MaxSpikes
    /\ bass_level' = Smooth(bass_level, BandMean(f, bass_range))
    /\ mid_level' = Smooth(mid_level, BandMean(f, mid_range))
    /\ high_level' = Smooth(high_level, BandMean(f, high_range))
    /\ overall_volume' = Smooth(overall_volume, VolumeMean(f))
    /\ DetectStep(VolumeMean(f))
    /\ nfed' = nfed + 1
    /\ nloud' = IF f = BassTone THEN nloud + 1 ELSE nloud
    /\ UNCHANGED <<engine, audio_queue, callers, workers, callback, reader, written,
                   published, smoothrun, frameghost, bandrun>>

NextFrames == \E f \in {Silence, BassTone} : ProcessFrame(f)

SpecFrames == Init /\ [][NextFrames]_vars

(***************************************************************************)
(* The smoother alone: one level updated again and again with the same raw *)
(* value, as line 143 does when every frame has the same band mean.  The   *)
(* run is computed in units of 1 / FineScale; every division by 10 is      *)
(* rounded down for smoothed_lo and up for smoothed_hi, so the value the   *)
(* program computes lies between the two.                                  *)
(***************************************************************************)
FineScale == 1000000
SmoothInputs == {0, 1 * FineScale, 100 * FineScale, 200 * FineScale}
SmoothStarts == {0, 100 * FineScale}

\* level * smoothing_factor + new * (1 - smoothing_factor), rounded up
SmoothUp(level, new) ==
    (level * smoothing_factor_x10 + new * (10 - smoothing_factor_x10) + 9) \div 10

SmoothBegin(s0, v) ==
    /\ raw_input = -1
    /\ raw_input' = v
    /\ smoothed_start' = s0
    /\ smoothed_lo' = s0
    /\ smoothed_hi' = s0
    /\ nupdates' = 0
    /\ UNCHANGED <<engine, audio_queue, owned, callers, workers, callback, reader,
                   written, published, beatghost, frameghost, bandrun>>

SmoothUpdate ==
    /\ raw_input # -1
    /\ nupdates < MaxUpdates
    /\ smoothed_lo' = Smooth(smoothed_lo, raw_input)
    /\ smoothed_hi' = SmoothUp(smoothed_hi, raw_input)
    /\ nupdates' = nupdates + 1
    /\ UNCHANGED <<engine, audio_queue, owned, callers, workers, callback, reader,
                   written, published, beatghost, raw_input, smoothed_start,
                   frameghost, bandrun>>

NextSmooth ==
    \/ \E s0 \in SmoothStarts, v \in SmoothInputs : SmoothBegin(s0, v)
    \/ SmoothUpdate

SpecSmooth == Init /\ [][NextSmooth]_vars

(***************************************************************************)
(* The band selection alone: for an analyzer constructed with a sample     *)
(* rate and a chunk size, the bands whose np.where (lines 132-134) selects *)
(* a bin of a frame of chunk_size samples.                                 *)
(***************************************************************************)
BandRates == {sample_rate, 16000, 48000}
BandSizes == {chunk_size, 512, 64}
Bands == [bass |-> bass_range, mid |-> mid_range, high |-> high_range]

BandsBegin(rate, n) ==
    /\ band_rate = 0
    /\ band_rate' = rate
    /\ band_size' = n
    /\ UNCHANGED <<engine, audio_queue, owned, callers, workers, callback, reader,
                   written, published, beatghost, smoothrun, frameghost,
                   band_bin, band_hits>>

BandsBin(k) ==
    /\ band_rate # 0
    /\ k <= band_size \div 2
    /\ band_bin' = k
    /\ band_hits' = {b \in DOMAIN Bands : InBand(band_rate, band_size, k, Bands[b])}
    /\ UNCHANGED <<engine, audio_queue, owned, callers, workers, callback, reader,
                   written, published, beatghost, smoothrun, frameghost,
                   band_rate, band_size>>

NextBands ==
    \/ \E rate \in BandRates, n \in BandSizes : BandsBegin(rate, n)
    \/ \E k \in 0..(chunk_size \div 2) : BandsBin(k)

SpecBands == Init /\ [][NextBands]_vars

(***************************************************************************)
(* The beat detector alone: _detect_beat called with one loudness sample   *)
(* after another on a freshly constructed analyzer, as the unit tests do.  *)
(***************************************************************************)
Quiet == 1 * Scale
Loud == 10 * Scale

BeatStep(v) ==
    /\ nfed < MaxBeatFrames
    /\ v = Loud => nloud < MaxSpikes
    /\ DetectStep(v)
    /\ nfed' = nfed + 1
    /\ nloud' = IF v = Loud THEN nloud + 1 ELSE nloud
    /\ UNCHANGED <<engine, audio_queue, bass_level, mid_level, high_level,
                   overall_volume, callers, workers, callback, reader, written,
                   published, smoothrun, frameghost, bandrun>>

NextBeat == \E v \in {Quiet, Loud} : BeatStep(v)

SpecBeat == Init /\ [][NextBeat]_vars

(***************************************************************************)
(* The beat detector at its threshold: _detect_beat called with samples of *)
(* 1.0, of 1.3 (beat_threshold times the quiet sample) and of 1.4, the     *)
(* last two at most MaxSpikes times in all.                                *)
(***************************************************************************)
Border == (beat_threshold_x10 * Quiet) \div 10
Above == Border + Scale \div 10

ThresholdStep(v) ==
    /\ nfed < MaxBeatFrames
    /\ v # Quiet => nloud < MaxSpikes
    /\ DetectStep(v)
    /\ nfed' = nfed + 1
    /\ nloud' = IF v # Quiet THEN nloud + 1 ELSE nloud
    /\ UNCHANGED <<engine, audio_queue, bass_level, mid_level, high_level,
                   overall_volume, callers, workers, callback, reader, written,
                   published, smoothrun, frameghost, bandrun>>

NextThreshold == \E v \in {Quiet, Border, Above} : ThresholdStep(v)

SpecThreshold == Init /\ [][NextThreshold]_vars

(***************************************************************************)
(* Properties.                                                             *)
(***************************************************************************)
OwnedInitial ==
    /\ bass_level = 0 /\ mid_level = 0 /\ high_level = 0 /\ overall_volume = 0
    /\ beat_detected = FALSE /\ volume_history = <<>> /\ beat_cooldown = 0

AllReturned == \A c \in Callers : cpc[c] = "idle"

\* C1: every value get_audio_features returns is the (normalised) field
\* values left by one and the same completely processed frame (or by
\* construction): never some fields from before and others from after a
\* frame's update.
C1_SnapshotConsistent ==
    rpc = "done" =>
        \E p \in published : snap = Features(p[1], p[2], p[3], p[4], p[5])

\* a device stream is open and capturing and no worker is running
CaptureNoWorker == (\E s \in Ids : streams[s] = "active") /\ LiveWorkers = {}

\* is_running is set and a worker is running, and the stream has been
\* stopped or closed or PortAudio terminated
WorkerNoDevice ==
    /\ is_running
    /\ LiveWorkers # {}
    /\ \/ pa = "terminated"
       \/ stream # 0 /\ streams[stream] \in {"stopped", "closed"}

\* C2: once a stop() and a start() that ran concurrently have both returned,
\* the engine is neither capturing with no worker nor running a worker on a
\* released device.
C2_StopStartRace ==
    (overlap /\ ncalls = 2 /\ AllReturned) => ~CaptureNoWorker /\ ~WorkerNoDevice

\* C3: after a frame on which _detect_beat reports a beat, each of the next
\* 10 frames reports none: two detections are more than 10 calls apart.
C3_CooldownTenFrames == lastgap = 0 \/ lastgap > CooldownFrames

\* C4: the frame queue is bounded: whenever it holds frames it has a capacity
\* (maxsize > 0) and holds at most that many.
C4_QueueBounded ==
    Len(audio_queue) > 0 => (maxsize > 0 /\ Len(audio_queue) <= maxsize)

\* C5: the callback never waits: wherever it stands before its put, whatever
\* the queue holds and whether or not a worker runs, the put-or-drop step can
\* be taken, and every callback that has returned returned paContinue.
C5_CallbackNeverWaits ==
    /\ cb_pc = "put" => ENABLED CallbackPut
    /\ (cb_pc = "idle" /\ nframes > 0) => cb_status = "paContinue"

\* C5 witness: every frame the device delivered is queued, no worker is
\* running to consume them, and the callback has returned.
C5_Witness ==
    /\ Len(audio_queue) = MaxFrames
    /\ LiveWorkers = {}
    /\ cb_pc = "idle"
    /\ cb_status = "paContinue"

\* C6: stop_audio_capture on a stopped engine (never started, or right after
\* a stop) is a no-op: no step of it changes the engine's state.
C6_StopIdempotent ==
    [][\A c \in Callers :
          (cnoop[c] /\ cpc[c] \in StopPcs /\ cpc'[c] # cpc[c])
              => UNCHANGED <<pa, stream, streams, is_running, audio_thread>>]_vars

\* C7: the smoothed levels, the loudness history and the beat state have at
\* most one writer: there is never a second live worker thread.
C7_SingleWorker == Cardinality(LiveWorkers) <= 1

\* C8: when stop_audio_capture returns (no start having raced a stop), no
\* worker thread is still running.
C8_StopJoinsWorker ==
    \A c \in Callers : (cpc[c] = "t_ret" /\ ~overlap) => LiveWorkers = {}

\* a stop has released something: a stream stopped or closed, PortAudio
\* terminated
Released == pa = "terminated" \/ \E s \in Ids : streams[s] \in {"stopped", "closed"}

\* C9: stop_audio_capture clears is_running before it releases the device
\* (so, with one caller thread, a released device implies a cleared flag); no
\* worker ends otherwise than by reading a cleared flag at its loop test;
\* and from a cleared flag on, unless a start sets it again, every worker
\* eventually leaves its loop, frames or no frames.
C9_StopSignalsWorker ==
    /\ [](Released => ~is_running)
    /\ [][\A w \in Ids : (Alive(w) /\ ~Alive(w)') => (wpc[w] = "loop" /\ ~is_running)]_vars
    /\ (~is_running /\ started) ~> (is_running \/ LiveWorkers = {})

\* C9 witness: a stop has returned, no frame ever arrived, and the worker
\* has left its loop.
C9_Witness ==
    /\ lastcall = "stop"
    /\ nframes = 0
    /\ \E w \in Ids : wpc[w] = "exited"

\* C10: every start_audio_capture resets the worker-owned state: when a start
\* returns True and no worker has written since that start began, the levels
\* are 0, the history is empty and the beat state is (False, 0).
C10_StartResets ==
    \A c \in Callers :
        (cpc[c] = "s_ret" /\ cret[c] = "True" /\ ~written[c]) => OwnedInitial

\* a worker is between the first and the last write of one frame's update
MidFrame == \E w \in Ids : wpc[w] \in {"bass", "mid", "high", "volume", "beat"}

\* no worker has begun to write a frame's values
NoFrameProcessed == volume_history = <<>> /\ ~MidFrame

\* the value get_audio_features is returning holds all five entries
SnapComplete ==
    /\ snap.bass_level \in 0..Scale
    /\ snap.mid_level \in 0..Scale
    /\ snap.high_level \in 0..Scale
    /\ snap.overall_volume \in 0..Scale
    /\ snap.beat_detected \in BOOLEAN

\* C11: get_audio_features never waits (each of its steps can be taken in
\* every state, whatever the caller thread, the callback and the workers are
\* doing), the value it returns holds all five entries, and it is
\* {0, 0, 0, 0, False} as long as no worker has begun to write a frame.
C11_SnapshotNeverBlocks ==
    /\ rpc = "idle" => ENABLED ReaderBegin
    /\ rpc = "bass" => ENABLED ReadBass
    /\ rpc = "mid" => ENABLED ReadMid
    /\ rpc = "high" => ENABLED ReadHigh
    /\ rpc = "volume" => ENABLED ReadVolume
    /\ rpc = "beat" => ENABLED ReadBeat
    /\ rpc = "done" => (SnapComplete /\ ENABLED ReaderReturn)
    /\ (rpc = "done" /\ NoFrameProcessed) => snap = Features(0, 0, 0, 0, FALSE)

\* C11 witness: get_audio_features returns the neutral value while a stop is
\* in progress in the caller thread and a worker is still running.
C11_Witness ==
    /\ rpc = "done"
    /\ cpc[1] \in StopPcs
    /\ LiveWorkers # {}
    /\ NoFrameProcessed
    /\ snap = Features(0, 0, 0, 0, FALSE)

\* C12: with the audio libraries missing, every start_audio_capture returns
\* False, is_running stays False, no worker thread and no stream is ever
\* created, and whatever start, stop and get_audio_features calls follow,
\* get_audio_features returns {0, 0, 0, 0, False}.
C12_NoBackend ==
    ~AUDIO_AVAILABLE =>
        /\ ~is_running
        /\ audio_thread = 0 /\ \A w \in Ids : wpc[w] = "none"
        /\ stream = 0 /\ \A i \in Ids : streams[i] = "none"
        /\ \A c \in Callers : cpc[c] = "s_ret" => cret[c] = "False"
        /\ \A c \in Callers : cpc[c] \in StartPcs => cpc[c] \in {"s_check", "s_ret"}
        /\ rpc = "done" => snap = Features(0, 0, 0, 0, FALSE)

\* C12 witness: libraries missing, every call of the behaviour made, the last
\* one a start, and get_audio_features returns the neutral value.
C12_Witness ==
    /\ ~AUDIO_AVAILABLE
    /\ ncalls = MaxCalls
    /\ lastcall = "start"
    /\ cpc[1] = "idle"
    /\ rpc = "done"
    /\ snap = Features(0, 0, 0, 0, FALSE)

\* the engine is not capturing: flag cleared and no open stream
NotCapturing ==
    /\ ~is_running
    /\ \A i \in Ids : streams[i] \in {"none", "closed"}

\* C13: when pa.open raises inside start_audio_capture, the call returns
\* False (no exception reaches the caller), changes nothing of the engine
\* and creates no worker thread; a start that began on a stopped engine
\* (nothing called yet, or the last call a stop) leaves is_running False
\* and no open stream.
C13_OpenFails ==
    /\ [][\A c \in Callers :
             (cpc[c] = "s_open" /\ cpc'[c] = "s_ret")
                 => (cret'[c] = "False" /\ UNCHANGED <<engine, wpc>>)]_vars
    /\ [](\A c \in Callers :
             (AUDIO_AVAILABLE /\ cpc[c] = "s_ret" /\ cret[c] = "False"
                 /\ lastcall # "start")
                 => NotCapturing)

\* C13 witness: on a fresh engine with the libraries available, a start is
\* returning False because pa.open raised.
C13_Witness ==
    /\ AUDIO_AVAILABLE
    /\ lastcall = "none"
    /\ ncalls = 1
    /\ cpc[1] = "s_ret"
    /\ cret[1] = "False"
    /\ pa = "initialized"

\* worker w is taking a frame whose analysis raises (rfft of an empty buffer)
TakesBadFrame(w) ==
    /\ wpc[w] = "get"
    /\ audio_queue # <<>>
    /\ Head(audio_queue).n < 1
    /\ wpc'[w] # wpc[w]

\* C14: a frame whose analysis raises is consumed without ending the worker
\* and without writing any output field: the worker is back at its loop
\* test, from where it goes on to the next get while is_running is set; a
\* worker ends only by reading a cleared flag at its loop test.
C14_FrameErrorCaught ==
    /\ [][\A w \in Ids :
             TakesBadFrame(w)
                 => /\ wpc'[w] = "loop"
                    /\ audio_queue' = Tail(audio_queue)
                    /\ UNCHANGED <<owned, published, is_running>>]_vars
    /\ [][\A w \in Ids :
             (Alive(w) /\ ~Alive(w)') => (wpc[w] = "loop" /\ ~is_running)]_vars
    /\ [][\A w \in Ids :
             (wpc[w] = "loop" /\ is_running /\ wpc'[w] # wpc[w]) => wpc'[w] = "get"]_vars

\* C14 witness: the only worker has consumed an empty frame and both frames
\* of the behaviour are off the queue: it is now analysing the frame that
\* came after the empty one.
C14_Witness ==
    /\ nframes = MaxFrames
    /\ cb_pc = "idle"
    /\ audio_queue = <<>>
    /\ volume_history = <<>>
    /\ \E w \in Ids :
          /\ wpc[w] = "bass"
          /\ wframe[w] = BassTone
          /\ \A v \in Ids \ {w} : wpc[v] = "none"

\* the cooldown after the decrement _detect_beat applies on every call
Decremented(cooldown) == IF cooldown > 0 THEN cooldown - 1 ELSE 0

SpikeSamples ==
    [i \in 1..20 |-> IF i = 16 THEN Loud ELSE Quiet]

\* C16: fed from the initial state with fifteen 1s, then 10, then four 1s,
\* _detect_beat leaves beat_detected True after the 16th sample and False
\* after each of the other 19.
C16_SpikeDetectedOnce ==
    \A n \in 1..20 :
        (nfed = n /\ volume_history = SubSeq(SpikeSamples, 1, n))
            => (beat_detected <=> n = 16)

\* C16 witness: all 20 samples fed, the detection 4 calls back.
C16_Witness ==
    /\ nfed = 20
    /\ volume_history = SpikeSamples
    /\ ~beat_detected
    /\ sincebeat = 4
    /\ lastgap = 0

\* C18: every _detect_beat call leaves a history of at most 20 samples,
\* made of the previous history, less its oldest sample when it was full,
\* followed by the sample of the current call.
C18_HistoryWindow ==
    /\ [](Len(volume_history) <= HistoryLen)
    /\ [][LET h == volume_history
              n == Len(volume_history')
          IN /\ n = Min(Len(h) + 1, HistoryLen)
             /\ SubSeq(volume_history', 1, n - 1)
                    = (IF Len(h) < HistoryLen THEN h ELSE Tail(h))
             /\ volume_history'[n] = (IF nloud' > nloud THEN Loud ELSE Quiet)]_vars

\* C18 witness: more samples fed than the history holds, the loud one among
\* them already evicted.
C18_Witness ==
    /\ nfed > HistoryLen
    /\ nloud = 1
    /\ Len(volume_history) = HistoryLen
    /\ \A i \in 1..HistoryLen : volume_history[i] = Quiet

\* x clamped to [0, 1]
Clamp01(x) == IF x < 0 THEN 0 ELSE IF x > Scale THEN Scale ELSE x

\* C17: every level get_audio_features reads into its result is the
\* smoothed level at that moment times its multiplier (100, 50, 20, 30)
\* clamped to [0, 1]; the smoothed levels are never negative, and every
\* returned level lies in [0, 1].
C17_Normalised ==
    /\ [](bass_level >= 0 /\ mid_level >= 0 /\ high_level >= 0 /\ overall_volume >= 0)
    /\ [](rpc = "done" =>
             /\ snap.bass_level \in 0..Scale
             /\ snap.mid_level \in 0..Scale
             /\ snap.high_level \in 0..Scale
             /\ snap.overall_volume \in 0..Scale)
    /\ [][/\ (rpc = "bass" /\ rpc' = "mid")
              => snap'.bass_level = Clamp01(bass_level * 100)
          /\ (rpc = "mid" /\ rpc' = "high")
              => snap'.mid_level = Clamp01(mid_level * 50)
          /\ (rpc = "high" /\ rpc' = "volume")
              => snap'.high_level = Clamp01(high_level * 20)
          /\ (rpc = "volume" /\ rpc' = "beat")
              => snap'.overall_volume = Clamp01(overall_volume * 30)]_vars

\* C17 witness: a returned value with one level clamped to 1.0 and two
\* levels scaled but strictly between 0 and 1.
C17_Witness ==
    /\ rpc = "done"
    /\ snap.bass_level = Scale
    /\ bass_level * 100 > Scale
    /\ snap.high_level \in 1..(Scale - 1)
    /\ snap.high_level = high_level * 20
    /\ snap.overall_volume \in 1..(Scale - 1)

Abs(x) == IF x < 0 THEN -x ELSE x

\* 0.001
Tolerance == FineScale \div 1000

\* the smoothed value of the run is within d of the raw value
SmoothedWithin(d) ==
    /\ Abs(raw_input - smoothed_lo) <= d
    /\ Abs(raw_input - smoothed_hi) <= d

\* C19 as stated: after at least 31 updates with the constant raw value v
\* the smoothed value is within 0.001 of v.
C19_SmoothingConverges ==
    (raw_input # -1 /\ nupdates >= 31) => SmoothedWithin(Tolerance)

\* C19: after at least 31 updates with the constant raw value v, the
\* smoothed value is within 0.001 * |v - s0| of v, s0 being the smoothed
\* value before the first of these updates.
C19_SmoothingConvergesRelative ==
    (raw_input # -1 /\ nupdates >= 31)
        => SmoothedWithin(Abs(raw_input - smoothed_start) \div 1000)

\* C19 witness: 31 updates with the raw value 100.0 from the initial level
\* 0: the smoothed value is within 0.1 of 100.0 and not within 0.001.
C19_Witness ==
    /\ nupdates = 31
    /\ raw_input = 100 * FineScale
    /\ smoothed_start = 0
    /\ raw_input - smoothed_hi > Tolerance
    /\ raw_input - smoothed_lo <= 100 * Tolerance

\* the frame just processed was a frame of zeros
ZeroFrameStep == nfed' = nfed + 1 /\ nloud' = nloud

\* level l2 is at most 0.8 times level l1
Decayed(l1, l2) == 0 <= l2 /\ l2 <= l1 /\ 10 * l2 <= 8 * l1

\* C20: while every processed frame is a frame of zeros the four levels
\* stay 0 and beat_detected stays False; in any state, processing a frame
\* of zeros raises no level, leaves each at most 0.8 times what it was (so
\* the levels tend to 0) and reports beat_detected False.
C20_SilenceConverges ==
    /\ [](nloud = 0 =>
             /\ bass_level = 0 /\ mid_level = 0 /\ high_level = 0
             /\ overall_volume = 0 /\ ~beat_detected)
    /\ [][ZeroFrameStep =>
             /\ Decayed(bass_level, bass_level')
             /\ Decayed(mid_level, mid_level')
             /\ Decayed(high_level, high_level')
             /\ Decayed(overall_volume, overall_volume')
             /\ ~beat_detected']_vars

\* C20 witness: after loud frames, ten or more frames of zeros have been
\* processed with the cooldown expired: the detector tested the last one,
\* the levels have fallen below a tenth of their peak and are not yet 0.
C20_Witness ==
    /\ nloud = MaxSpikes
    /\ sincebeat > CooldownFrames
    /\ volume_history[Len(volume_history)] = 0
    /\ beat_cooldown = 0
    /\ ~beat_detected
    /\ bass_level > 0
    /\ 10 * bass_level < Smooth(0, BandMean(BassTone, bass_range))

\* __init__ has run: self.pa is a PyAudio object when the libraries are
\* available and None otherwise, terminated or not
Constructed == pa # "none" <=> AUDIO_AVAILABLE

\* C21: the three band ranges of a constructed analyzer are contiguous: the
\* upper bound of bass_range is the lower bound of mid_range, the upper
\* bound of mid_range is the lower bound of high_range, the bass lower
\* bound is >= 0, and with the default sample rate the high upper bound is
\* at most sample_rate / 2.
C21_BandsContiguous ==
    Constructed =>
        /\ bass_range[2] = mid_range[1]
        /\ mid_range[2] = high_range[1]
        /\ bass_range[1] >= 0
        /\ 2 * high_range[2] <= sample_rate

\* C21 witness: a constructed analyzer has analysed a bass tone with these
\* ranges: the bass level has risen, the mid and high levels have not.
C21_Witness ==
    /\ nfed > 0
    /\ bass_level > 0
    /\ mid_level = 0
    /\ high_level = 0

\* C22: a _detect_beat call that finds beat_cooldown = n > 0, for every n
\* from 1 to 10, leaves beat_cooldown = n - 1 and reports beat_detected
\* False whatever the sample: the threshold is not evaluated on that frame.
C22_CooldownSkipsThreshold ==
    [][beat_cooldown > 0
          => (beat_cooldown' = beat_cooldown - 1 /\ ~beat_detected')]_vars

\* C23: a _detect_beat call that finds beat_cooldown = 0 reports
\* beat_detected True exactly when the history it leaves (the current
\* sample appended) holds at least 10 samples and the current sample is
\* strictly greater than 1.3 times the mean of that history without its 5
\* most recent samples; it then leaves beat_cooldown = 10, and otherwise
\* beat_cooldown = 0.
C23_ThresholdTest ==
    [][(beat_cooldown = 0 /\ nfed' = nfed + 1) =>
          LET h == volume_history'
              n == Len(volume_history')
              older == SubSeq(volume_history', 1, Len(volume_history') - 5)
              over == /\ n >= 10
                      /\ 10 * h[n] * Len(older) > 13 * SeqSum(older)
          IN /\ beat_detected' <=> over
             /\ beat_cooldown' = (IF over THEN 10 ELSE 0)]_vars

\* C23 witness: a sample of 1.4 has just been detected over a history whose
\* older part is all 1.0, right after a sample of 1.3 that was tested with
\* no cooldown active and not detected.
C23_Witness ==
    /\ beat_detected
    /\ beat_cooldown = 10
    /\ Len(volume_history) >= 11
    /\ volume_history[Len(volume_history)] = Above
    /\ volume_history[Len(volume_history) - 1] = Border
    /\ lastgap = 0

\* the position of a worker after each statement of one frame's analysis
AfterPc(pc) ==
    CASE pc = "bass" -> "mid"
      [] pc = "mid" -> "high"
      [] pc = "high" -> "volume"
      [] pc = "volume" -> "beat"
      [] pc = "beat" -> "loop"

AnalysisPcs == {"bass", "mid", "high", "volume", "beat"}

\* worker w moves from position p to position q
Moves(w, p, q) == wpc[w] = p /\ wpc'[w] = q

\* smoothed * 0.8 + raw * 0.2
Blend(smoothed, raw) == (8 * smoothed + 2 * raw) \div 10

\* C24: a worker that has taken a frame whose analysis does not raise goes
\* through the four level updates and the detector step once each, in
\* order; each update sets its own level to level * 0.8 + raw * 0.2, raw
\* being that frame's band mean, and changes no other output field; the
\* detector is stepped with the frame's raw mean magnitude, which becomes
\* the newest history sample; nothing but these steps changes the worker's
\* output state, a get that times out least of all.
C24_FrameUpdate ==
    [][\A w \in Ids :
          /\ (wpc[w] \in AnalysisPcs /\ wpc'[w] # wpc[w]) => wpc'[w] = AfterPc(wpc[w])
          /\ Moves(w, "get", "bass")
                => (wframe'[w] = Head(audio_queue) /\ UNCHANGED owned)
          /\ Moves(w, "bass", "mid")
                => /\ bass_level' = Blend(bass_level, BandMean(wframe[w], bass_range))
                   /\ UNCHANGED <<mid_level, high_level, overall_volume,
                                  beat_detected, volume_history, beat_cooldown, wframe>>
          /\ Moves(w, "mid", "high")
                => /\ mid_level' = Blend(mid_level, BandMean(wframe[w], mid_range))
                   /\ UNCHANGED <<bass_level, high_level, overall_volume,
                                  beat_detected, volume_history, beat_cooldown, wframe>>
          /\ Moves(w, "high", "volume")
                => /\ high_level' = Blend(high_level, BandMean(wframe[w], high_range))
                   /\ UNCHANGED <<bass_level, mid_level, overall_volume,
                                  beat_detected, volume_history, beat_cooldown, wframe>>
          /\ Moves(w, "volume", "beat")
                => /\ overall_volume' = Blend(overall_volume, VolumeMean(wframe[w]))
                   /\ UNCHANGED <<bass_level, mid_level, high_level,
                                  beat_detected, volume_history, beat_cooldown, wframe>>
          /\ Moves(w, "beat", "loop")
                => /\ Len(volume_history') = Min(Len(volume_history) + 1, 20)
                   /\ volume_history'[Len(volume_history')] = VolumeMean(wframe[w])
                   /\ UNCHANGED <<bass_level, mid_level, high_level, overall_volume>>
          /\ Moves(w, "get", "loop") => UNCHANGED owned
          /\ (Moves(w, "get", "loop") /\ audio_queue = <<>>)
                => UNCHANGED <<audio_queue, wframe>>
          /\ owned' # owned => \E v \in Ids : wpc[v] \in AnalysisPcs /\ wpc'[v] # wpc[v]]_vars

\* C24 witness: both frames of the behaviour were bass tones and have been
\* analysed; the worker is in a get on the empty queue, which times out.
C24_Witness ==
    /\ nframes = MaxFrames
    /\ audio_queue = <<>>
    /\ cb_pc = "idle"
    /\ volume_history = <<VolumeMean(BassTone), VolumeMean(BassTone)>>
    /\ overall_volume > 0
    /\ overall_volume < VolumeMean(BassTone)
    /\ bass_level > 0
    /\ \E w \in Ids : wpc[w] = "get"

\* C25: after construction and after every _detect_beat call, beat_cooldown
\* is an integer in 0..10 and beat_detected is True exactly when
\* beat_cooldown is 10.
C25_CooldownRange ==
    /\ beat_cooldown \in 0..10
    /\ beat_detected <=> beat_cooldown = 10

\* C25 witness: three calls after a detection: no beat reported, the
\* cooldown at 7.
C25_Witness ==
    /\ sincebeat = 3
    /\ beat_cooldown = 7
    /\ ~beat_detected
    /\ nloud = 1

\* the last call to return was a stop and no call is in progress
StopCompleted == lastcall = "stop" /\ \A c \in Callers : cpc[c] = "idle"

\* C26: after a sequence of start and stop calls that ends with a completed
\* stop, no stream opened by any earlier start is open (active or merely
\* stopped), two starts before that stop included, and PortAudio begins no
\* callback.
C26_StopClosesEveryStream ==
    /\ [](StopCompleted => \A s \in Ids : streams[s] \in {"none", "closed"})
    /\ [][(StopCompleted /\ cb_pc = "idle") => cb_pc' = "idle"]_vars

\* C26 witness: two starts opened a stream each, then a stop completed: both
\* streams are closed, the one self.stream no longer refers to included.
C26_Witness ==
    /\ StopCompleted
    /\ ncalls = 3
    /\ stream = 2
    /\ streams[1] = "closed"
    /\ streams[2] = "closed"

\* caller c is inside a start that began after an earlier start opened a
\* stream and a stop, the last call before this one, returned
Restarting(c) ==
    /\ cpc[c] \in StartPcs
    /\ lastcall = "stop"
    /\ \E i \in Ids : streams[i] # "none"

\* C27: a start that follows a completed start and a completed stop can
\* open the device again (its pa.open can succeed), and when it returns
\* True a stream is capturing, is_running is set and a worker is running.
C27_RestartCaptures ==
    \A c \in Callers :
        /\ (Restarting(c) /\ cpc[c] = "s_open") => ENABLED StartOpen(c)
        /\ (Restarting(c) /\ cpc[c] = "s_ret" /\ cret[c] = "True")
              => /\ stream # 0 /\ streams[stream] = "active"
                 /\ is_running
                 /\ LiveWorkers # {}

\* the worker threads that have been created
Created == {w \in Ids : wpc[w] # "none"}

\* frames taken by any worker since is_running was cleared
FurtherFrames == SeqSum([w \in Ids |-> further[w]])

\* C28: from the moment a stop clears is_running, and as long as no start
\* sets it again, a worker takes at most one more frame off the queue; with
\* one worker, that is at most one more frame in all; and once the workers
\* have left their loop the levels, the history and the beat state change
\* no more.
C28_AtMostOneMoreFrame ==
    /\ [](\A w \in Ids : further[w] <= 1)
    /\ [](Cardinality(Created) <= 1 => FurtherFrames <= 1)
    /\ [][(~is_running /\ LiveWorkers = {}) => UNCHANGED owned]_vars

\* C28 witness: the stop has returned; the only worker took one frame after
\* the flag was cleared, analysed it and left its loop, and the frame that
\* was queued behind it stays on the queue.
C28_Witness ==
    /\ StopCompleted
    /\ Cardinality(Created) = 1
    /\ LiveWorkers = {}
    /\ FurtherFrames = 1
    /\ Len(volume_history) = 1
    /\ Len(audio_queue) = 1

\* a worker takes the frame at the head of the queue and its rfft does not
\* raise: the worker goes on to analyse it
FrameTaken ==
    /\ audio_queue # <<>>
    /\ audio_queue' = Tail(audio_queue)
    /\ Head(audio_queue).n > 0

\* C29: no frame queued before a stop began is taken by a worker after the
\* start that follows that stop has begun.
C29_NoStaleFrame ==
    [][FrameTaken => Head(qera) >= era]_vars

\* C30: for every sample rate and chunk size, every FFT bin is selected by
\* the np.where of at most one of the three bands.
C30_BinInOneBand ==
    band_bin # -1 => Cardinality(band_hits) <= 1

====
